---- MODULE Spec2Model ----
(***************************************************************************)
(* The comparison list of the Compareon extension: the list persisted      *)
(* under chrome.storage.local key 'comparison_items' and every code path   *)
(* that reads and rewrites it (ComparisonManager, the Zillow compare       *)
(* button, the two popup scripts, the background script).                  *)
(*                                                                         *)
(* Every mutation in the code is chrome.storage.local.get -> compute ->    *)
(* chrome.storage.local.set.  The get callback and the computation run     *)
(* synchronously in one turn; the set lands later.  Each operation is      *)
(* therefore two actions, ...Get (read the list, compute, issue the set)   *)
(* and ...Set (the write lands, the operation resolves).                   *)
(***************************************************************************)
EXTENDS Integers, Sequences, FiniteSets

\* ---------------------------------------------------------------- constants
MAX_ITEMS == 5

\* ------------------------------------------------------------------- bounds
\* product ids 1..NumIds; new ids are named in increasing order
NumIds == 6
\* ids that operations on existing entries (re-add, remove) may name
NumEditIds == 1
\* versions of the scraped fields of a product (title, price, image, ...)
NumData == 2
\* versions of the fields the detail page yields (0: an empty details object)
NumDetails == 1
\* length of the products array the server reports
MaxServer == 2
\* operations explored after the first additions, all entry points
MaxOps == 2
\* operations explored after the first additions, ComparisonManager alone
MaxCalls == 3
\* values crypto.randomUUID is asked for
MaxUUIDs == 2
\* products of the lists the popup is opened on
NumListed == 2

\* ------------------------------------------------------------------ records
\* a product without product_id (undefined) has product_id = NoId
NoId == 0
\* an optional field that is not present in the record
Absent == 0

\* one slot per entry point: the operation it has in flight, if any
Slots == {"manager", "zillow", "popup", "apipopup", "external", "reconcile", "enrich"}

VARIABLES
  comparison_items,  \* chrome.storage.local 'comparison_items'
  comparisonItems,   \* the popup's in-memory list (let comparisonItems)
  inflight,          \* per entry point: the list it read and the set it issued
  result,            \* per entry point: how its last operation resolved
  enrichQueue,       \* fetchPropertyDetails requests the background has not served
  nextId,            \* the smallest product id no add has named yet
  ops,               \* operations begun since the first additions
  badge,             \* the badge text, under each background script
  badgeMsgs,         \* 'updateBadge' messages the background has not received
  compareBtn,        \* the popup's compare button and its container
  popupScript,       \* the popup script installed ("either": both are explored)
  browser_uuid,      \* chrome.storage.local 'browser_uuid'
  current_session,   \* chrome.storage.local 'current_session'
  tabs,              \* session ids of the comparison tabs opened
  sent,              \* payloads of the 'addToCompare' messages sent
  session,           \* per popup script: its compare click in progress
  uuidCall,          \* per caller: its getBrowserUUID call in progress
  nextUUID,          \* the next value crypto.randomUUID returns
  resolvedUUIDs,     \* the values getBrowserUUID calls have resolved to
  detail             \* the fetchPropertyDetails request the background is serving

badgeVars == <<badge, badgeMsgs>>

popupVars == <<popupScript, browser_uuid, current_session, tabs, sent, session,
               uuidCall, nextUUID, resolvedUUIDs>>

\* what no operation on the list touches: the popup's side and the
\* background's detail tab
sessionVars == <<popupVars, detail>>

vars == <<comparison_items, comparisonItems, inflight, result, enrichQueue, nextId, ops,
          badgeVars, compareBtn, sessionVars>>

\* new Date(): the first additions and the first operation after them happen
\* at time 1, every later operation at a later time than the one before it
now == ops + 1

\* the record an extractor returns: scraped fields only, no status, no stamps
Product(pid, d) ==
  [product_id |-> pid, data |-> d, details |-> Absent, detailsEnriched |-> FALSE,
   status |-> "none", addedAt |-> Absent, updatedAt |-> Absent,
   removedAt |-> Absent, reactivatedAt |-> Absent]

\* items.filter(item => item.status === 'active')
RECURSIVE SelectActive(_)
SelectActive(items) ==
  IF items = <<>> THEN <<>>
  ELSE IF Head(items).status = "active"
       THEN <<Head(items)>> \o SelectActive(Tail(items))
       ELSE SelectActive(Tail(items))

\* items.filter(item => item.status === 'active').length
activeCount(items) == Len(SelectActive(items))

\* items.findIndex(item => item.product_id === pid); 0 stands for -1
findIndex(items, pid) ==
  IF \E i \in DOMAIN items : items[i].product_id = pid
  THEN CHOOSE i \in DOMAIN items :
         /\ items[i].product_id = pid
         /\ \A j \in DOMAIN items : items[j].product_id = pid => i <= j
  ELSE 0

\* addItem with the limit compared by > instead of >=
addItem_LimitOffByOne(items, product, t) ==
  LET p == [product EXCEPT !.status = "active", !.addedAt = t]
      existingIndex == findIndex(items, p.product_id)
  IN IF existingIndex # 0
     THEN IF items[existingIndex].status = "removed"
          THEN [kind |-> "reactivated", write |-> TRUE,
                items |-> [items EXCEPT ![existingIndex] = [p EXCEPT !.reactivatedAt = t]]]
          ELSE [kind |-> "replaced", write |-> TRUE,
                items |-> [items EXCEPT ![existingIndex] = [p EXCEPT !.updatedAt = t]]]
     ELSE IF activeCount(items) > MAX_ITEMS
          THEN [kind |-> "limit", write |-> FALSE, items |-> items]
          ELSE [kind |-> "added", write |-> TRUE, items |-> Append(items, p)]

\* addItem reactivating by {...existingProduct, ...product, reactivatedAt}
addItem_ReactivateKeepsOld(items, product, t) ==
  LET p == [product EXCEPT !.status = "active", !.addedAt = t]
      existingIndex == findIndex(items, p.product_id)
  IN IF existingIndex # 0
     THEN IF items[existingIndex].status = "removed"
          THEN [kind |-> "reactivated", write |-> TRUE,
                items |-> [items EXCEPT ![existingIndex] =
                   [@ EXCEPT !.data = p.data, !.status = "active",
                             !.addedAt = t, !.reactivatedAt = t]]]
          ELSE [kind |-> "replaced", write |-> TRUE,
                items |-> [items EXCEPT ![existingIndex] = [p EXCEPT !.updatedAt = t]]]
     ELSE IF activeCount(items) >= MAX_ITEMS
          THEN [kind |-> "limit", write |-> FALSE, items |-> items]
          ELSE [kind |-> "added", write |-> TRUE, items |-> Append(items, p)]

\* addItem updating by {...existingProduct, ...product, updatedAt}
addItem_ReplaceKeepsOld(items, product, t) ==
  LET p == [product EXCEPT !.status = "active", !.addedAt = t]
      existingIndex == findIndex(items, p.product_id)
  IN IF existingIndex # 0
     THEN IF items[existingIndex].status = "removed"
          THEN [kind |-> "reactivated", write |-> TRUE,
                items |-> [items EXCEPT ![existingIndex] = [p EXCEPT !.reactivatedAt = t]]]
          ELSE [kind |-> "replaced", write |-> TRUE,
                items |-> [items EXCEPT ![existingIndex] =
                   [@ EXCEPT !.data = p.data, !.addedAt = t, !.updatedAt = t]]]
     ELSE IF activeCount(items) >= MAX_ITEMS
          THEN [kind |-> "limit", write |-> FALSE, items |-> items]
          ELSE [kind |-> "added", write |-> TRUE, items |-> Append(items, p)]

\* ComparisonManager.addItem up to the chrome.storage.local.set it issues:
\* kind is how the call will resolve, items the list handed to set
addItem(items, product, t) ==
  LET p == [product EXCEPT !.status = "active", !.addedAt = t]
      existingIndex == findIndex(items, p.product_id)
  IN IF existingIndex # 0
     THEN IF items[existingIndex].status = "removed"
          THEN [kind |-> "reactivated", write |-> TRUE,
                items |-> [items EXCEPT ![existingIndex] = [p EXCEPT !.reactivatedAt = t]]]
          ELSE [kind |-> "replaced", write |-> TRUE,
                items |-> [items EXCEPT ![existingIndex] = [p EXCEPT !.updatedAt = t]]]
     ELSE IF activeCount(items) >= MAX_ITEMS
          THEN [kind |-> "limit", write |-> FALSE, items |-> items]
          ELSE [kind |-> "added", write |-> TRUE, items |-> Append(items, p)]

\* the click handler of the Zillow compare button up to the set it issues
zillowClick(items, product, t) ==
  LET p == [product EXCEPT !.status = "active", !.addedAt = t]
      existingIndex == findIndex(items, p.product_id)
  IN IF existingIndex # 0
     THEN [kind |-> "replaced", write |-> TRUE,
           items |-> [items EXCEPT ![existingIndex] = [p EXCEPT !.updatedAt = t]]]
     ELSE IF activeCount(items) >= 5
          THEN [kind |-> "limit", write |-> FALSE, items |-> items]
          ELSE [kind |-> "added", write |-> TRUE, items |-> Append(items, p)]

\* items.map(item => item.product_id === productId
\*                   ? {...item, status: 'removed', removedAt: now} : item)
softRemove(items, productId, t) ==
  [i \in DOMAIN items |->
     IF items[i].product_id = productId
     THEN [items[i] EXCEPT !.status = "removed", !.removedAt = t]
     ELSE items[i]]

\* removeItem with the comparison inverted (!== for ===)
removeItem_Inverted(items, productId, t) ==
  [i \in DOMAIN items |->
     IF items[i].product_id # productId
     THEN [items[i] EXCEPT !.status = "removed", !.removedAt = t]
     ELSE items[i]]

\* ComparisonManager.removeItem up to the set it issues
removeItem(items, productId, t) == softRemove(items, productId, t)

\* the background's onMessageExternal 'removeProduct' up to the set it issues
externalRemoveProduct(items, productId, t) == softRemove(items, productId, t)

\* removeProduct of the storage-only popup up to the set it issues
removeProduct(items, product_id, t) == softRemove(items, product_id, t)

\* removeProduct of the API-synced popup:
\* comparisonItems.filter(item => item.product_id !== product_id)
RECURSIVE apiRemoveProduct(_, _)
apiRemoveProduct(items, product_id) ==
  IF items = <<>> THEN <<>>
  ELSE IF Head(items).product_id # product_id
       THEN <<Head(items)>> \o apiRemoveProduct(Tail(items), product_id)
       ELSE apiRemoveProduct(Tail(items), product_id)

\* productMap.has(pid), the Map kept as the sequence of its values in
\* insertion order
mapHas(m, pid) == \E i \in DOMAIN m : m[i].product_id = pid

\* productMap.set(product.product_id, product): an existing key keeps its
\* place and takes the new value, a new key goes last
mapSet(m, product) ==
  IF mapHas(m, product.product_id)
  THEN [m EXCEPT ![findIndex(m, product.product_id)] = product]
  ELSE Append(m, product)

\* data.products.forEach(product => { if (product.product_id) set })
RECURSIVE addApiProducts(_, _)
addApiProducts(m, products) ==
  IF products = <<>> THEN m
  ELSE addApiProducts(IF Head(products).product_id # NoId
                      THEN mapSet(m, Head(products)) ELSE m,
                      Tail(products))

\* the local pass without the !productMap.has test, on an array
RECURSIVE addLocalProducts_NoHasCheck(_, _)
addLocalProducts_NoHasCheck(m, localItems) ==
  IF localItems = <<>> THEN m
  ELSE addLocalProducts_NoHasCheck(IF Head(localItems).product_id # NoId
                                   THEN Append(m, Head(localItems)) ELSE m,
                                   Tail(localItems))

\* localItems.forEach(product => { if (product.product_id && !has) set })
RECURSIVE addLocalProducts(_, _)
addLocalProducts(m, localItems) ==
  IF localItems = <<>> THEN m
  ELSE addLocalProducts(IF Head(localItems).product_id # NoId
                           /\ ~mapHas(m, Head(localItems).product_id)
                        THEN mapSet(m, Head(localItems)) ELSE m,
                        Tail(localItems))

\* the merge with the two passes swapped: local products first
mergeProducts_LocalWins(apiProducts, localItems) ==
  addLocalProducts(addLocalProducts(<<>>, localItems), apiProducts)

\* the merge of fetchProductsFromAPI: Array.from(productMap.values())
mergeProducts(apiProducts, localItems) ==
  addLocalProducts(addApiProducts(<<>>, apiProducts), localItems)

\* the enrichment map also marking the enriched entry active
enrichItems_Activates(items, productId, details) ==
  [i \in DOMAIN items |->
     IF items[i].product_id = productId
     THEN [items[i] EXCEPT !.details = IF details = 0 THEN @ ELSE details,
                           !.detailsEnriched = TRUE,
                           !.status = "active"]
     ELSE items[i]]

\* items.map(item => item.product_id === productId
\*                   ? {...item, ...details, detailsEnriched: true} : item)
enrichItems(items, productId, details) ==
  [i \in DOMAIN items |->
     IF items[i].product_id = productId
     THEN [items[i] EXCEPT !.details = IF details = 0 THEN @ ELSE details,
                           !.detailsEnriched = TRUE]
     ELSE items[i]]

\* a record of the server's products array: the server knows product 1 as
\* removed and product NumIds as active, and may send a record without id
ServerProduct(pid, st) == [Product(pid, NumData) EXCEPT !.status = st, !.addedAt = 1]

ServerProducts ==
  {ServerProduct(1, "removed"), ServerProduct(NumIds, "active"),
   ServerProduct(NoId, "active")}

\* the products arrays the server may report
ServerLists == UNION {[1..n -> ServerProducts] : n \in 0..MaxServer}

\* the two background scripts of the repository
Backgrounds == {"part_000", "background.js"}

\* Number.prototype.toString: the decimal digits of count
toString(count) ==
  IF count < 10 THEN <<count>> ELSE <<count \div 10, count % 10>>

\* updateBadge: the badge text set for count ('' is the empty sequence)
updateBadge(count) == IF count > 0 THEN toString(count) ELSE <<>>

\* the count the storage.onChanged listener and initializeBadge take of a list:
\* part_000 filters the active entries, background.js takes items.length
badgeCount(bg, items) == IF bg = "part_000" THEN activeCount(items) ELSE Len(items)

\* initializeBadge, as run when the background script starts
initializeBadge(items) == [bg \in Backgrounds |-> updateBadge(badgeCount(bg, items))]

\* renderProductList, as far as the compare button goes: an empty list hides
\* the container and returns; otherwise the button is disabled below 2 items
renderProductList(btn, items) ==
  IF Len(items) = 0
  THEN [btn EXCEPT !.visible = FALSE]
  ELSE [btn EXCEPT !.visible = TRUE, !.disabled = Len(items) < 2]

\* the popup before its first render (README: the button reads
\* "Start Comparing"); nothing is in progress
PopupClosed == [visible |-> FALSE, disabled |-> FALSE, label |-> "Start Comparing"]

\* the callers of getBrowserUUID: openComparisonPage of the storage-only
\* popup, createComparisonSession and fetchProductsFromAPI of the API-synced one
Callers == {"storage", "api", "fetch"}

NoCall == [pc |-> "idle", uuid |-> 0]
\* invokedOn keeps the persisted list as it was when the handler was invoked
NoSession ==
  [pc |-> "idle", outcome |-> "none", uuid |-> 0, products |-> <<>>,
   createdAt |-> 0, originalText |-> "", invokedOn |-> <<>>]

\* what the background answers to 'addToCompare': a confirmation, a failure
\* response, or no answer (chrome.runtime.lastError)
AddToCompareReplies == {"ok", "failed", "lastError"}

\* the background serves no fetchPropertyDetails request
NoFetch ==
  [pc |-> "idle", pid |-> NoId, tab |-> FALSE, timer |-> FALSE, listener |-> FALSE,
   details |-> 0, responses |-> 0]

\* the state of the session side of a fresh installation
InitSessionVars(scripts) ==
  /\ detail = NoFetch
  /\ compareBtn = PopupClosed
  /\ popupScript \in scripts
  /\ browser_uuid = 0
  /\ current_session = <<>>
  /\ tabs = {}
  /\ sent = {}
  /\ session = [f \in {"storage", "api"} |-> NoSession]
  /\ uuidCall = [c \in Callers |-> NoCall]
  /\ nextUUID = 1
  /\ resolvedUUIDs = {}

Idle == [pc |-> "idle", kind |-> "none", pid |-> NoId, read |-> <<>>, items |-> <<>>]
NoResult == [success |-> FALSE, kind |-> "none"]
Issued(kind, pid, read, items) ==
  [pc |-> "set", kind |-> kind, pid |-> pid, read |-> read, items |-> items]

ProductIds(items) == {items[i].product_id : i \in DOMAIN items}

\* a fresh installation
InitEmpty ==
  /\ comparison_items = <<>>
  /\ comparisonItems = <<>>
  /\ inflight = [s \in Slots |-> Idle]
  /\ result = [s \in Slots |-> NoResult]
  /\ enrichQueue = {}
  /\ nextId = 1
  /\ ops = 0
  /\ badge = initializeBadge(comparison_items)
  /\ badgeMsgs = <<>>
  /\ InitSessionVars({"either"})

\* the list after ComparisonManager.addItem of products 1..n at time 1
FirstAdditions(n) ==
  [i \in 1..n |-> [Product(i, 1) EXCEPT !.status = "active", !.addedAt = 1]]

\* a fresh installation, or one whose list ComparisonManager has filled to
\* the limit or to one below it (SpecManager reaches these lists from
\* InitEmpty by first additions)
Init ==
  /\ comparison_items \in
       {<<>>, FirstAdditions(MAX_ITEMS - 1), FirstAdditions(MAX_ITEMS)}
  /\ comparisonItems = <<>>
  /\ inflight = [s \in Slots |-> Idle]
  /\ result = [s \in Slots |-> NoResult]
  /\ enrichQueue = {}
  /\ nextId = Len(comparison_items) + 1
  /\ ops = 0
  /\ badge = initializeBadge(comparison_items)
  /\ badgeMsgs = <<>>
  /\ InitSessionVars({"either"})

\* ids an add may name: no id, an existing low id, or the next new id
AddIds == {NoId} \cup {i \in 1..NumEditIds : i < nextId} \cup {i \in 1..NumIds : i = nextId}
\* ids a remove may name (in the list or not)
RemoveIds == {NoId} \cup (1..NumEditIds)

\* chrome.storage.onChanged for a set of comparison_items to newValue: the
\* listener of the background script sets the badge (no event when the value
\* set is the value stored)
OnChanged(newValue) ==
  badge' = IF newValue = comparison_items THEN badge
           ELSE [bg \in Backgrounds |-> updateBadge(badgeCount(bg, newValue))]

\* an operation begins: one more of the operations explored
Begin(max) ==
  /\ ops < max
  /\ ops' = ops + 1

\* ComparisonManager.addItem: getItems, the branch taken, the set issued
AddItemCall(pid, d) ==
  /\ inflight["manager"].pc = "idle"
  /\ pid \in AddIds
  /\ pid = nextId => d = 1
  /\ LET r == addItem(comparison_items, Product(pid, d), now)
     IN IF r.write
        THEN /\ inflight' = [inflight EXCEPT
                   !["manager"] = Issued(r.kind, pid, comparison_items, r.items)]
             /\ result' = [result EXCEPT !["manager"] = NoResult]
        ELSE /\ inflight' = inflight
             /\ result' = [result EXCEPT
                   !["manager"] = [success |-> FALSE, kind |-> r.kind]]
  /\ nextId' = IF pid = nextId THEN nextId + 1 ELSE nextId
  /\ UNCHANGED <<comparison_items, comparisonItems, enrichQueue, badgeVars,
                 compareBtn, sessionVars>>

\* ComparisonManager.addItem of one more new product before anything else
\* has happened; these first additions are not counted against the bound
FirstAdditionGet ==
  /\ ops = 0
  /\ nextId <= NumIds
  /\ AddItemCall(nextId, 1)
  /\ ops' = ops

\* ComparisonManager.addItem, any later call
AddItemGet(pid, d, max) ==
  /\ Begin(max)
  /\ AddItemCall(pid, d)

\* ComparisonManager.addItem with a set that is dropped when the store no
\* longer holds the list that was read (a compare-and-set the code lacks)
AddItemSet_CompareAndSet ==
  /\ inflight["manager"].pc = "set"
  /\ inflight["manager"].kind \in {"added", "reactivated", "replaced"}
  /\ comparison_items' = IF comparison_items = inflight["manager"].read
                         THEN inflight["manager"].items
                         ELSE comparison_items
  /\ OnChanged(comparison_items')
  /\ result' = [result EXCEPT
        !["manager"] = [success |-> comparison_items = inflight["manager"].read,
                        kind |-> inflight["manager"].kind]]
  /\ inflight' = [inflight EXCEPT !["manager"] = Idle]
  /\ UNCHANGED <<comparisonItems, enrichQueue, nextId, ops, badgeMsgs,
                 compareBtn, sessionVars>>

\* ComparisonManager.addItem: the set callback resolves the promise
AddItemSet ==
  /\ inflight["manager"].pc = "set"
  /\ inflight["manager"].kind \in {"added", "reactivated", "replaced"}
  /\ comparison_items' = inflight["manager"].items
  /\ OnChanged(comparison_items')
  /\ result' = [result EXCEPT
        !["manager"] = [success |-> TRUE, kind |-> inflight["manager"].kind]]
  /\ inflight' = [inflight EXCEPT !["manager"] = Idle]
  /\ UNCHANGED <<comparisonItems, enrichQueue, nextId, ops, badgeMsgs,
                 compareBtn, sessionVars>>

\* ComparisonManager.removeItem: getItems, map, the set issued
RemoveItemGet(pid, max) ==
  /\ inflight["manager"].pc = "idle"
  /\ pid \in RemoveIds
  /\ Begin(max)
  /\ inflight' = [inflight EXCEPT !["manager"] =
        Issued("removed", pid, comparison_items, removeItem(comparison_items, pid, now))]
  /\ result' = [result EXCEPT !["manager"] = NoResult]
  /\ UNCHANGED <<comparison_items, comparisonItems, enrichQueue, nextId, badgeVars,
                 compareBtn, sessionVars>>

\* ComparisonManager.removeItem resolving without its set having stored
\* the list
RemoveItemSet_Dropped ==
  /\ inflight["manager"].pc = "set"
  /\ inflight["manager"].kind = "removed"
  /\ comparison_items' = comparison_items
  /\ OnChanged(comparison_items')
  /\ result' = [result EXCEPT !["manager"] = [success |-> TRUE, kind |-> "removed"]]
  /\ inflight' = [inflight EXCEPT !["manager"] = Idle]
  /\ UNCHANGED <<comparisonItems, enrichQueue, nextId, ops, badgeMsgs,
                 compareBtn, sessionVars>>

\* ComparisonManager.removeItem: the set callback resolves the promise
RemoveItemSet ==
  /\ inflight["manager"].pc = "set"
  /\ inflight["manager"].kind = "removed"
  /\ comparison_items' = inflight["manager"].items
  /\ OnChanged(comparison_items')
  /\ result' = [result EXCEPT !["manager"] = [success |-> TRUE, kind |-> "removed"]]
  /\ inflight' = [inflight EXCEPT !["manager"] = Idle]
  /\ UNCHANGED <<comparisonItems, enrichQueue, nextId, ops, badgeMsgs,
                 compareBtn, sessionVars>>

\* the Zillow compare button: storage get callback up to the set it issues
\* (extractFromListingPage returns null, and nothing happens, without an id)
ZillowClickGet(pid, d) ==
  /\ inflight["zillow"].pc = "idle"
  /\ pid \in AddIds \ {NoId}
  /\ pid = nextId => d = 1
  /\ Begin(MaxOps)
  /\ LET r == zillowClick(comparison_items, Product(pid, d), now)
     IN IF r.write
        THEN /\ inflight' = [inflight EXCEPT
                   !["zillow"] = Issued(r.kind, pid, comparison_items, r.items)]
             /\ result' = [result EXCEPT !["zillow"] = NoResult]
        ELSE /\ inflight' = inflight
             /\ result' = [result EXCEPT
                   !["zillow"] = [success |-> FALSE, kind |-> r.kind]]
  /\ nextId' = IF pid = nextId THEN nextId + 1 ELSE nextId
  /\ UNCHANGED <<comparison_items, comparisonItems, enrichQueue, badgeVars,
                 compareBtn, sessionVars>>

\* the Zillow compare button: the set callback; it asks the background for
\* the property details when the card has a title link
ZillowClickSet(hasLink) ==
  /\ inflight["zillow"].pc = "set"
  /\ comparison_items' = inflight["zillow"].items
  /\ OnChanged(comparison_items')
  /\ badgeMsgs' = Append(badgeMsgs, activeCount(inflight["zillow"].items))
  /\ result' = [result EXCEPT
        !["zillow"] = [success |-> TRUE, kind |-> inflight["zillow"].kind]]
  /\ enrichQueue' = IF hasLink THEN enrichQueue \cup {inflight["zillow"].pid}
                    ELSE enrichQueue
  /\ inflight' = [inflight EXCEPT !["zillow"] = Idle]
  /\ UNCHANGED <<comparisonItems, nextId, ops,
                 compareBtn, sessionVars>>

\* background onMessage 'updateBadge': the badge is set to the count sent
UpdateBadgeMessage ==
  /\ badgeMsgs # <<>>
  /\ badge' = [bg \in Backgrounds |-> updateBadge(Head(badgeMsgs))]
  /\ badgeMsgs' = Tail(badgeMsgs)
  /\ UNCHANGED <<comparison_items, comparisonItems, inflight, result, enrichQueue,
                 nextId, ops,
                 compareBtn, sessionVars>>

\* the background script starts (onStartup, onInstalled, service worker
\* start): initializeBadge
OnStartup ==
  /\ badge' = initializeBadge(comparison_items)
  /\ UNCHANGED <<comparison_items, comparisonItems, inflight, result, enrichQueue,
                 nextId, ops, badgeMsgs,
                 compareBtn, sessionVars>>

\* fetchPropertyDetailsInBackground: details extracted, storage get callback
\* up to the set it issues
EnrichGet(pid, details) ==
  /\ inflight["enrich"].pc = "idle"
  /\ pid \in enrichQueue
  /\ Begin(MaxOps)
  /\ enrichQueue' = enrichQueue \ {pid}
  /\ inflight' = [inflight EXCEPT !["enrich"] =
        Issued("enriched", pid, comparison_items,
               enrichItems(comparison_items, pid, details))]
  /\ UNCHANGED <<comparison_items, comparisonItems, result, nextId, badgeVars,
                 compareBtn, sessionVars>>

\* fetchPropertyDetailsInBackground: the set callback
EnrichSet ==
  /\ inflight["enrich"].pc = "set"
  /\ comparison_items' = inflight["enrich"].items
  /\ OnChanged(comparison_items')
  /\ inflight' = [inflight EXCEPT !["enrich"] = Idle]
  /\ UNCHANGED <<comparisonItems, result, enrichQueue, nextId, ops, badgeMsgs,
                 compareBtn, sessionVars>>

\* fetchPropertyDetailsInBackground: timeout, injection error or no result;
\* the store is not touched
EnrichNone(pid) ==
  /\ pid \in enrichQueue
  /\ enrichQueue' = enrichQueue \ {pid}
  /\ UNCHANGED <<comparison_items, comparisonItems, inflight, result, nextId, ops, badgeVars,
                 compareBtn, sessionVars>>

\* background onMessageExternal 'removeProduct' from compareon.xyz: storage
\* get callback up to the set it issues
ExternalRemoveGet(pid) ==
  /\ inflight["external"].pc = "idle"
  /\ pid \in RemoveIds
  /\ Begin(MaxOps)
  /\ inflight' = [inflight EXCEPT !["external"] =
        Issued("removed", pid, comparison_items,
               externalRemoveProduct(comparison_items, pid, now))]
  /\ result' = [result EXCEPT !["external"] = NoResult]
  /\ UNCHANGED <<comparison_items, comparisonItems, enrichQueue, nextId, badgeVars,
                 compareBtn, sessionVars>>

\* background onMessageExternal 'removeProduct': the set callback sets the
\* badge and responds; the onChanged listener runs before or after it
ExternalRemoveSet ==
  /\ inflight["external"].pc = "set"
  /\ comparison_items' = inflight["external"].items
  /\ \E listenerLast \in BOOLEAN :
        IF listenerLast /\ comparison_items' # comparison_items
        THEN OnChanged(comparison_items')
        ELSE badge' = [bg \in Backgrounds |->
                         updateBadge(activeCount(inflight["external"].items))]
  /\ result' = [result EXCEPT !["external"] = [success |-> TRUE, kind |-> "removed"]]
  /\ inflight' = [inflight EXCEPT !["external"] = Idle]
  /\ UNCHANGED <<comparisonItems, enrichQueue, nextId, ops, badgeMsgs,
                 compareBtn, sessionVars>>

\* storage-only popup, loadProductsFromStorage (on open and on refresh)
LoadProductsFromStorage ==
  /\ popupScript \in {"either", "storage"}
  /\ Begin(MaxOps)
  /\ comparisonItems' = SelectActive(comparison_items)
  /\ compareBtn' = renderProductList(compareBtn, comparisonItems')
  /\ UNCHANGED <<comparison_items, inflight, result, enrichQueue, nextId, badgeVars,
                 sessionVars>>

\* API-synced popup, loadComparisonItems (on open)
LoadComparisonItems ==
  /\ popupScript \in {"either", "api"}
  /\ Begin(MaxOps)
  /\ comparisonItems' = comparison_items
  /\ compareBtn' = renderProductList(compareBtn, comparisonItems')
  /\ UNCHANGED <<comparison_items, inflight, result, enrichQueue, nextId, badgeVars,
                 sessionVars>>

\* storage-only popup, Remove button of a rendered product: storage get
\* callback up to the set it issues
RemoveProductGet(pid) ==
  /\ popupScript \in {"either", "storage"}
  /\ inflight["popup"].pc = "idle"
  /\ pid \in RemoveIds \cap ProductIds(comparisonItems)
  /\ Begin(MaxOps)
  /\ inflight' = [inflight EXCEPT !["popup"] =
        Issued("removed", pid, comparison_items,
               removeProduct(comparison_items, pid, now))]
  /\ UNCHANGED <<comparison_items, comparisonItems, result, enrichQueue, nextId, badgeVars,
                 compareBtn, sessionVars>>

\* storage-only popup, removeProduct: the set callback reloads the active
\* products
RemoveProductSet ==
  /\ inflight["popup"].pc = "set"
  /\ comparison_items' = inflight["popup"].items
  /\ OnChanged(comparison_items')
  /\ comparisonItems' = SelectActive(comparison_items')
  /\ inflight' = [inflight EXCEPT !["popup"] = Idle]
  /\ compareBtn' = renderProductList(compareBtn, comparisonItems')
  /\ UNCHANGED <<result, enrichQueue, nextId, ops, badgeMsgs,
                 sessionVars>>

\* API-synced popup, Remove button of a rendered product: the in-memory list
\* is filtered and handed to set
ApiRemoveProductGet(pid) ==
  /\ popupScript \in {"either", "api"}
  /\ inflight["apipopup"].pc = "idle"
  /\ pid \in RemoveIds \cap ProductIds(comparisonItems)
  /\ Begin(MaxOps)
  /\ comparisonItems' = apiRemoveProduct(comparisonItems, pid)
  /\ inflight' = [inflight EXCEPT !["apipopup"] =
        Issued("removed", pid, comparisonItems, comparisonItems')]
  /\ UNCHANGED <<comparison_items, result, enrichQueue, nextId, badgeVars,
                 compareBtn, sessionVars>>

\* API-synced popup, removeProduct: the set lands
ApiRemoveProductSet ==
  /\ inflight["apipopup"].pc = "set"
  /\ comparison_items' = inflight["apipopup"].items
  /\ OnChanged(comparison_items')
  /\ inflight' = [inflight EXCEPT !["apipopup"] = Idle]
  /\ compareBtn' = renderProductList(compareBtn, comparisonItems)
  /\ UNCHANGED <<comparisonItems, result, enrichQueue, nextId, ops, badgeMsgs,
                 sessionVars>>

\* fetchProductsFromAPI with a products array in the response:
\* loadComparisonItems, the merge, the set issued
FetchProductsGet(apiProducts) ==
  /\ popupScript \in {"either", "api"}
  /\ inflight["reconcile"].pc = "idle"
  /\ Begin(MaxOps)
  /\ comparisonItems' = mergeProducts(apiProducts, comparison_items)
  /\ inflight' = [inflight EXCEPT !["reconcile"] =
        Issued("merged", NoId, comparison_items, comparisonItems')]
  /\ UNCHANGED <<comparison_items, result, enrichQueue, nextId, badgeVars,
                 compareBtn, sessionVars>>

\* the ways fetchProductsFromAPI ends without a products array: fetch rejects,
\* the status is not OK, the response has no products array
FetchFailures == {"networkError", "notOk", "noProducts"}

\* fetchProductsFromAPI treating a response without a products array as an
\* empty array
FetchProductsFail_MergesEmpty(failure) ==
  /\ popupScript \in {"either", "api"}
  /\ inflight["reconcile"].pc = "idle"
  /\ failure \in FetchFailures
  /\ Begin(MaxOps)
  /\ result' = [result EXCEPT !["reconcile"] = [success |-> FALSE, kind |-> failure]]
  /\ comparisonItems' = IF failure = "noProducts"
                        THEN mergeProducts(<<>>, comparison_items)
                        ELSE comparisonItems
  /\ inflight' = IF failure = "noProducts"
                 THEN [inflight EXCEPT !["reconcile"] =
                         Issued("merged", NoId, comparison_items, comparisonItems')]
                 ELSE inflight
  /\ UNCHANGED <<comparison_items, enrichQueue, nextId, badgeVars,
                 compareBtn, sessionVars>>

\* fetchProductsFromAPI when fetch rejects or the status is not OK (the catch
\* block logs) or the response has no products array (the if is skipped)
FetchProductsFail(failure) ==
  /\ popupScript \in {"either", "api"}
  /\ inflight["reconcile"].pc = "idle"
  /\ failure \in FetchFailures
  /\ Begin(MaxOps)
  /\ result' = [result EXCEPT !["reconcile"] = [success |-> FALSE, kind |-> failure]]
  /\ UNCHANGED <<comparison_items, comparisonItems, inflight, enrichQueue, nextId,
                 badgeVars, compareBtn, sessionVars>>

\* fetchProductsFromAPI: the set lands
FetchProductsSet ==
  /\ inflight["reconcile"].pc = "set"
  /\ comparison_items' = inflight["reconcile"].items
  /\ OnChanged(comparison_items')
  /\ inflight' = [inflight EXCEPT !["reconcile"] = Idle]
  /\ compareBtn' = renderProductList(compareBtn, comparisonItems)
  /\ UNCHANGED <<comparisonItems, result, enrichQueue, nextId, ops, badgeMsgs,
                 sessionVars>>

\* the list side of the state, which no session or getBrowserUUID step changes
listVars == <<comparison_items, comparisonItems, inflight, result, enrichQueue, nextId,
              badgeVars, detail>>

\* the compare button can be clicked
Clickable == compareBtn.visible /\ ~compareBtn.disabled

\* openComparisonPage, after getBrowserUUID resolved to uuid: sessionData is
\* built from the in-memory list and the set is issued
openComparisonPage(uuid) ==
  /\ session' = [session EXCEPT !["storage"] =
        [pc |-> "store", outcome |-> "none", uuid |-> uuid,
         products |-> comparisonItems, createdAt |-> now, originalText |-> "",
         invokedOn |-> session["storage"].invokedOn]]
  /\ UNCHANGED <<compareBtn, sent>>

\* createComparisonSession, after getBrowserUUID resolved to uuid: the payload
\* is built from the in-memory list, the button shows the loading state and
\* 'addToCompare' is sent to the background
createComparisonSession(uuid) ==
  /\ session' = [session EXCEPT !["api"] =
        [pc |-> "sent", outcome |-> "none", uuid |-> uuid,
         products |-> comparisonItems, createdAt |-> now,
         originalText |-> compareBtn.label,
         invokedOn |-> session["api"].invokedOn]]
  /\ compareBtn' = [compareBtn EXCEPT !.disabled = TRUE,
                                      !.label = "Creating Session..."]
  /\ sent' = sent \cup {[sessionId |-> uuid, products |-> comparisonItems,
                         timestamp |-> now]}

\* getBrowserUUID resolves to uuid and its caller goes on
Resolve(c, uuid) ==
  /\ resolvedUUIDs' = resolvedUUIDs \cup {uuid}
  /\ uuidCall' = [uuidCall EXCEPT ![c] = NoCall]
  /\ CASE c = "storage" -> openComparisonPage(uuid)
       [] c = "api" -> createComparisonSession(uuid)
       [] OTHER -> UNCHANGED <<session, compareBtn, sent>>

\* the compare button of popup script f is clicked: with fewer than 2 items in
\* memory the handler returns, otherwise it calls getBrowserUUID
\* (one attempt of a popup is followed at a time)
CompareClick(f) ==
  /\ popupScript = f
  /\ Clickable
  /\ session[f].pc = "idle"
  /\ uuidCall[f].pc = "idle"
  /\ Begin(MaxOps)
  /\ IF Len(comparisonItems) < 2
     THEN /\ session' = [session EXCEPT ![f] = [NoSession EXCEPT !.outcome = "rejected"]]
          /\ uuidCall' = uuidCall
     ELSE /\ session' = [session EXCEPT ![f] =
                [NoSession EXCEPT !.pc = "uuid", !.invokedOn = comparison_items]]
          /\ uuidCall' = [uuidCall EXCEPT ![f] = [pc |-> "get", uuid |-> 0]]
  /\ UNCHANGED <<listVars, compareBtn, popupScript, browser_uuid, current_session,
                 tabs, sent, nextUUID, resolvedUUIDs>>

\* the refresh button of the API-synced popup: fetchProductsFromAPI begins
\* with getBrowserUUID
RefreshClick ==
  /\ popupScript = "api"
  /\ uuidCall["fetch"].pc = "idle"
  /\ Begin(MaxOps)
  /\ uuidCall' = [uuidCall EXCEPT !["fetch"] = [pc |-> "get", uuid |-> 0]]
  /\ UNCHANGED <<listVars, compareBtn, popupScript, browser_uuid, current_session,
                 tabs, sent, session, nextUUID, resolvedUUIDs>>

\* getBrowserUUID, the storage get callback: a stored value is resolved;
\* without one crypto.randomUUID makes a value and the set is issued
GetBrowserUUIDGet(c) ==
  /\ uuidCall[c].pc = "get"
  /\ IF browser_uuid # 0
     THEN /\ Resolve(c, browser_uuid)
          /\ nextUUID' = nextUUID
     ELSE /\ nextUUID <= MaxUUIDs
          /\ nextUUID' = nextUUID + 1
          /\ uuidCall' = [uuidCall EXCEPT ![c] = [pc |-> "set", uuid |-> nextUUID]]
          /\ UNCHANGED <<resolvedUUIDs, session, compareBtn, sent>>
  /\ UNCHANGED <<listVars, ops, popupScript, browser_uuid, current_session, tabs>>

\* getBrowserUUID, the set callback: the value made is stored and resolved
GetBrowserUUIDSet(c) ==
  /\ uuidCall[c].pc = "set"
  /\ browser_uuid' = uuidCall[c].uuid
  /\ Resolve(c, uuidCall[c].uuid)
  /\ UNCHANGED <<listVars, ops, popupScript, current_session, tabs, nextUUID>>

\* openComparisonPage, the set callback: the session is stored and the
\* comparison tab opened
OpenPageStore ==
  /\ session["storage"].pc = "store"
  /\ current_session' = <<[sessionId |-> session["storage"].uuid,
                          products |-> session["storage"].products,
                          createdAt |-> session["storage"].createdAt]>>
  /\ tabs' = tabs \cup {session["storage"].uuid}
  /\ session' = [session EXCEPT !["storage"] = [@ EXCEPT !.pc = "idle",
                                                        !.outcome = "created"]]
  /\ UNCHANGED <<listVars, ops, compareBtn, popupScript, browser_uuid, sent, uuidCall,
                 nextUUID, resolvedUUIDs>>

\* createComparisonSession with a catch block that leaves the loading state
\* on the button
CreateSessionReply_KeepsLoading(reply) ==
  /\ session["api"].pc = "sent"
  /\ IF reply = "ok"
     THEN /\ session' = [session EXCEPT !["api"] =
                [@ EXCEPT !.pc = "store", !.products = comparisonItems,
                          !.createdAt = now]]
          /\ compareBtn' = compareBtn
     ELSE /\ session' = [session EXCEPT !["api"] =
                [@ EXCEPT !.pc = "idle", !.outcome = "failed"]]
          /\ compareBtn' = compareBtn
  /\ UNCHANGED <<listVars, ops, popupScript, browser_uuid, current_session, tabs, sent,
                 uuidCall, nextUUID, resolvedUUIDs>>

\* createComparisonSession, the sendMessage callback: on a confirmation
\* sessionData is built from the in-memory list and the set is issued;
\* otherwise the promise rejects and the catch block resets the button
CreateSessionReply(reply) ==
  /\ session["api"].pc = "sent"
  /\ IF reply = "ok"
     THEN /\ session' = [session EXCEPT !["api"] =
                [@ EXCEPT !.pc = "store", !.products = comparisonItems,
                          !.createdAt = now]]
          /\ compareBtn' = compareBtn
     ELSE /\ session' = [session EXCEPT !["api"] =
                [@ EXCEPT !.pc = "idle", !.outcome = "failed"]]
          /\ compareBtn' = [compareBtn EXCEPT
                !.disabled = Len(comparisonItems) < 2,
                !.label = "Start Comparing"]
  /\ UNCHANGED <<listVars, ops, popupScript, browser_uuid, current_session, tabs, sent,
                 uuidCall, nextUUID, resolvedUUIDs>>

\* createComparisonSession with a set that also stores the session's
\* products as the comparison list
CreateSessionStore_WritesList ==
  /\ session["api"].pc = "store"
  /\ current_session' = <<[sessionId |-> session["api"].uuid,
                          products |-> session["api"].products,
                          createdAt |-> session["api"].createdAt]>>
  /\ compareBtn' = [compareBtn EXCEPT !.disabled = FALSE,
                                      !.label = session["api"].originalText]
  /\ tabs' = tabs \cup {session["api"].uuid}
  /\ session' = [session EXCEPT !["api"] = [@ EXCEPT !.pc = "idle",
                                                    !.outcome = "created"]]
  /\ comparison_items' = SelectActive(session["api"].products)
  /\ UNCHANGED <<comparisonItems, inflight, result, enrichQueue, nextId, badgeVars,
                 ops, popupScript, browser_uuid, sent, uuidCall, nextUUID,
                 resolvedUUIDs, detail>>

\* createComparisonSession, the set callback: the session is stored, the
\* button reset and the comparison tab opened
CreateSessionStore ==
  /\ session["api"].pc = "store"
  /\ current_session' = <<[sessionId |-> session["api"].uuid,
                          products |-> session["api"].products,
                          createdAt |-> session["api"].createdAt]>>
  /\ compareBtn' = [compareBtn EXCEPT !.disabled = FALSE,
                                      !.label = session["api"].originalText]
  /\ tabs' = tabs \cup {session["api"].uuid}
  /\ session' = [session EXCEPT !["api"] = [@ EXCEPT !.pc = "idle",
                                                    !.outcome = "created"]]
  /\ UNCHANGED <<listVars, ops, popupScript, browser_uuid, sent, uuidCall, nextUUID,
                 resolvedUUIDs>>

\* ComparisonManager.getItems when the storage get fails (lastError, or the
\* call throws): it resolves the empty list
getItemsFailed == <<>>

\* ComparisonManager.addItem whose getItems failed: the list handed to set is
\* built from the empty list
AddItemGetFailed(pid, d) ==
  /\ inflight["manager"].pc = "idle"
  /\ pid \in AddIds
  /\ pid = nextId => d = 1
  /\ Begin(MaxCalls)
  /\ LET r == addItem(getItemsFailed, Product(pid, d), now)
     IN /\ inflight' = [inflight EXCEPT
              !["manager"] = Issued(r.kind, pid, getItemsFailed, r.items)]
        /\ result' = [result EXCEPT !["manager"] = NoResult]
  /\ nextId' = IF pid = nextId THEN nextId + 1 ELSE nextId
  /\ UNCHANGED <<comparison_items, comparisonItems, enrichQueue, badgeVars,
                 compareBtn, sessionVars>>

\* ComparisonManager.addItem when the storage set fails (lastError in the
\* callback, or the call throws): the promise resolves a failure
AddItemSetFailed ==
  /\ inflight["manager"].pc = "set"
  /\ inflight["manager"].kind \in {"added", "reactivated", "replaced"}
  /\ result' = [result EXCEPT
        !["manager"] = [success |-> FALSE, kind |-> inflight["manager"].kind]]
  /\ inflight' = [inflight EXCEPT !["manager"] = Idle]
  /\ UNCHANGED <<comparison_items, comparisonItems, enrichQueue, nextId, ops,
                 badgeVars, compareBtn, sessionVars>>

\* ComparisonManager.removeItem whose getItems failed: the empty list is
\* mapped and handed to set
RemoveItemGetFailed(pid) ==
  /\ inflight["manager"].pc = "idle"
  /\ pid \in RemoveIds
  /\ Begin(MaxCalls)
  /\ inflight' = [inflight EXCEPT !["manager"] =
        Issued("removed", pid, getItemsFailed, removeItem(getItemsFailed, pid, now))]
  /\ result' = [result EXCEPT !["manager"] = NoResult]
  /\ UNCHANGED <<comparison_items, comparisonItems, enrichQueue, nextId, badgeVars,
                 compareBtn, sessionVars>>

\* ComparisonManager.removeItem when the storage set fails
RemoveItemSetFailed ==
  /\ inflight["manager"].pc = "set"
  /\ inflight["manager"].kind = "removed"
  /\ result' = [result EXCEPT !["manager"] = [success |-> FALSE, kind |-> "removed"]]
  /\ inflight' = [inflight EXCEPT !["manager"] = Idle]
  /\ UNCHANGED <<comparison_items, comparisonItems, enrichQueue, nextId, ops,
                 badgeVars, compareBtn, sessionVars>>

NextFault ==
  \/ \E pid \in 0..NumIds, d \in 1..NumData : AddItemGet(pid, d, MaxCalls)
  \/ \E pid \in 0..NumIds, d \in 1..NumData : AddItemGetFailed(pid, d)
  \/ AddItemSet
  \/ AddItemSetFailed
  \/ \E pid \in 0..NumIds : RemoveItemGet(pid, MaxCalls)
  \/ \E pid \in 0..NumIds : RemoveItemGetFailed(pid)
  \/ RemoveItemSet
  \/ RemoveItemSetFailed

\* a single content script calling ComparisonManager while storage calls
\* can fail
SpecFault == Init /\ [][NextFault]_vars

\* sender.url of an external message, as its segments: scheme, host, path;
\* <<>> is a sender without url
SenderUrls ==
  {<<>>,
   <<"https", "compareon.xyz", "compare">>,
   <<"https", "other.example", "compare">>,
   <<"https", "other.example", "compareon.xyz">>}

\* the page that sent the message is a page of the compareon.xyz site
FromCompareonSite(url) == url # <<>> /\ url[2] = "compareon.xyz"

\* url.includes(text): text occurs somewhere in the url, in any segment
includes(url, text) == \E i \in DOMAIN url : url[i] = text

\* requests an external sender can make
ExternalRequests ==
  {[action |-> "getProducts", product_id |-> NoId],
   [action |-> "other", product_id |-> NoId]}
  \cup {[action |-> "removeProduct", product_id |-> pid] : pid \in 0..NumIds}

\* the onMessageExternal listener: the sender check, then getProducts (the
\* list and browser_uuid are read and sent back), removeProduct (up to the
\* set it issues) or the 'Unknown action' response
OnMessageExternal(url, request) ==
  IF url = <<>> \/ ~includes(url, "compareon.xyz")
  THEN /\ Begin(MaxOps)
       /\ result' = [result EXCEPT
             !["external"] = [success |-> FALSE, kind |-> "Unauthorized"]]
       /\ UNCHANGED <<comparison_items, comparisonItems, inflight, enrichQueue, nextId,
                      badgeVars, compareBtn, sessionVars>>
  ELSE IF request.action = "getProducts"
  THEN /\ Begin(MaxOps)
       /\ result' = [result EXCEPT
             !["external"] = [success |-> TRUE, kind |-> "products"]]
       /\ UNCHANGED <<comparison_items, comparisonItems, inflight, enrichQueue, nextId,
                      badgeVars, compareBtn, sessionVars>>
  ELSE IF request.action = "removeProduct"
  THEN ExternalRemoveGet(request.product_id)
  ELSE /\ Begin(MaxOps)
       /\ result' = [result EXCEPT
             !["external"] = [success |-> FALSE, kind |-> "Unknown action"]]
       /\ UNCHANGED <<comparison_items, comparisonItems, inflight, enrichQueue, nextId,
                      badgeVars, compareBtn, sessionVars>>

NextExternal ==
  \/ \E url \in SenderUrls, request \in ExternalRequests :
        OnMessageExternal(url, request)
  \/ ExternalRemoveSet
  \/ \E pid \in 0..NumIds, d \in 1..NumData : AddItemGet(pid, d, MaxOps)
  \/ AddItemSet

\* external messages to the background while a page adds products
SpecExternal == Init /\ [][NextExternal]_vars

NextManager ==
  \/ FirstAdditionGet
  \/ \E pid \in 0..NumIds, d \in 1..NumData : AddItemGet(pid, d, MaxCalls)
  \/ AddItemSet
  \/ \E pid \in 0..NumIds : RemoveItemGet(pid, MaxCalls)
  \/ RemoveItemSet

\* a single content script calling ComparisonManager, one call after another
SpecManager == InitEmpty /\ [][NextManager]_vars

NextSync ==
  \/ \E pid \in 0..NumIds, d \in 1..NumData : AddItemGet(pid, d, MaxOps)
  \/ AddItemSet
  \/ LoadComparisonItems
  \/ \E pid \in 0..NumIds : ApiRemoveProductGet(pid)
  \/ ApiRemoveProductSet
  \/ \E apiProducts \in ServerLists : FetchProductsGet(apiProducts)
  \/ FetchProductsSet
  \/ \E failure \in FetchFailures : FetchProductsFail(failure)

\* the API-synced popup next to a content script adding products
SpecSync == Init /\ [][NextSync]_vars

\* the lists of n products added at time 1 of which those in removed have
\* been removed at time 1
Listed(n, removed) ==
  [i \in 1..n |-> IF i \in removed
                  THEN removeItem(FirstAdditions(n), i, 1)[i]
                  ELSE FirstAdditions(n)[i]]

\* an installation with one of the two popup scripts, whose list holds up to
\* NumListed products, active or removed (SpecManager reaches these lists);
\* the popup has just been opened on it (DOMContentLoaded: the list is loaded
\* and rendered)
InitSession ==
  /\ comparison_items \in
       UNION {{Listed(n, removed) : removed \in SUBSET (1..n)} : n \in 0..NumListed}
  /\ popupScript \in {"storage", "api"}
  /\ comparisonItems = IF popupScript = "storage" THEN SelectActive(comparison_items)
                       ELSE comparison_items
  /\ compareBtn = renderProductList(PopupClosed, comparisonItems)
  /\ inflight = [s \in Slots |-> Idle]
  /\ result = [s \in Slots |-> NoResult]
  /\ enrichQueue = {}
  /\ nextId = Len(comparison_items) + 1
  /\ ops = 0
  /\ badge = initializeBadge(comparison_items)
  /\ badgeMsgs = <<>>
  /\ browser_uuid = 0
  /\ current_session = <<>>
  /\ tabs = {}
  /\ sent = {}
  /\ session = [f \in {"storage", "api"} |-> NoSession]
  /\ uuidCall = [c \in Callers |-> NoCall]
  /\ nextUUID = 1
  /\ resolvedUUIDs = {}
  /\ detail = NoFetch

NextSession ==
  \/ \E pid \in 0..NumIds, d \in 1..NumData : AddItemGet(pid, d, MaxOps)
  \/ AddItemSet
  \/ \E pid \in 0..NumIds : RemoveItemGet(pid, MaxOps)
  \/ RemoveItemSet
  \/ LoadProductsFromStorage
  \/ LoadComparisonItems
  \/ \E pid \in 0..NumIds : ApiRemoveProductGet(pid)
  \/ ApiRemoveProductSet
  \/ \E f \in {"storage", "api"} : CompareClick(f)
  \/ RefreshClick
  \/ \E c \in Callers : GetBrowserUUIDGet(c)
  \/ \E c \in Callers : GetBrowserUUIDSet(c)
  \/ OpenPageStore
  \/ \E reply \in AddToCompareReplies : CreateSessionReply(reply)
  \/ CreateSessionStore

\* the popup and its compare button, next to a content script
SpecSession == InitSession /\ [][NextSession]_vars

\* products 1..n were added with the Zillow button, and the background has
\* yet to answer the fetchPropertyDetails requests of some of them
InitEnrich ==
  /\ \E n \in 1..NumListed :
        /\ comparison_items = FirstAdditions(n)
        /\ enrichQueue \in SUBSET (1..n)
        /\ nextId = n + 1
  /\ comparisonItems = <<>>
  /\ inflight = [s \in Slots |-> Idle]
  /\ result = [s \in Slots |-> NoResult]
  /\ ops = 0
  /\ badge = initializeBadge(comparison_items)
  /\ badgeMsgs = <<>>
  /\ InitSessionVars({"either"})

NextEnrich ==
  \/ \E pid \in 1..NumIds, d \in 1..NumData : ZillowClickGet(pid, d)
  \/ \E hasLink \in BOOLEAN : ZillowClickSet(hasLink)
  \/ \E pid \in 1..NumIds, details \in 0..NumDetails : EnrichGet(pid, details)
  \/ EnrichSet
  \/ \E pid \in 1..NumIds : EnrichNone(pid)
  \/ \E pid \in 0..NumIds : RemoveItemGet(pid, MaxOps)
  \/ RemoveItemSet
  \/ \E pid \in 0..NumIds : ExternalRemoveGet(pid)
  \/ ExternalRemoveSet

\* Zillow pages, the background's detail enrichment and removals, interleaved
SpecEnrich == InitEnrich /\ [][NextEnrich]_vars

\* how the chrome.scripting.executeScript callback finds the injection: with
\* lastError, with no result, with the extracted details
ScriptOutcomes == {"lastError", "noResult", "details"}

\* the rest of the state, which no step of a detail fetch changes
fetchFrame == <<comparisonItems, nextId, badgeMsgs, compareBtn, popupVars>>

\* the promise of fetchPropertyDetailsInBackground settles and the onMessage
\* handler's then or catch calls sendResponse
Respond(d, success, kind) ==
  /\ detail' = [d EXCEPT !.pc = "done", !.responses = @ + 1]
  /\ result' = [result EXCEPT !["enrich"] = [success |-> success, kind |-> kind]]

\* onMessage 'fetchPropertyDetails': fetchPropertyDetailsInBackground creates
\* the background tab, arms the 30 second timeout and listens to onUpdated;
\* when chrome.tabs.create rejects, the catch rethrows and the handler
\* responds with the failure (one request is followed at a time)
FetchPropertyDetails(pid, created) ==
  /\ detail.pc \in {"idle", "done"}
  /\ pid \in enrichQueue
  /\ Begin(MaxOps)
  /\ enrichQueue' = enrichQueue \ {pid}
  /\ IF created
     THEN /\ detail' = [pc |-> "loading", pid |-> pid, tab |-> TRUE, timer |-> TRUE,
                        listener |-> TRUE, details |-> 0, responses |-> 0]
          /\ result' = [result EXCEPT !["enrich"] = NoResult]
     ELSE Respond([NoFetch EXCEPT !.pid = pid], FALSE, "tabError")
  /\ UNCHANGED <<comparison_items, inflight, badge, fetchFrame>>

\* the timeout callback that leaves the background tab open and the promise
\* pending
LoadTimeout_Silent ==
  /\ detail.pc = "loading"
  /\ detail.timer
  /\ detail' = [detail EXCEPT !.timer = FALSE]
  /\ UNCHANGED <<comparison_items, inflight, result, enrichQueue, ops, badge, fetchFrame>>

\* the 30 second timeout fires before the page completed: the tab is removed
\* and the promise rejects (the onUpdated listener stays)
LoadTimeout ==
  /\ detail.pc = "loading"
  /\ detail.timer
  /\ Respond([detail EXCEPT !.tab = FALSE, !.timer = FALSE], FALSE, "timeout")
  /\ UNCHANGED <<comparison_items, inflight, enrichQueue, ops, badge, fetchFrame>>

\* onUpdated reports status 'complete' for the tab: the listener is removed,
\* the timeout cleared and the 1 second delay before the injection started
PageComplete ==
  /\ detail.pc = "loading"
  /\ detail.tab
  /\ detail.listener
  /\ detail' = [detail EXCEPT !.pc = "delay", !.listener = FALSE, !.timer = FALSE]
  /\ UNCHANGED <<comparison_items, inflight, result, enrichQueue, ops, badge, fetchFrame>>

\* the background tab is closed from outside (by the user) while the request
\* waits for the page or for the injection
TabClosed ==
  /\ detail.pc \in {"loading", "delay"}
  /\ detail.tab
  /\ detail' = [detail EXCEPT !.tab = FALSE]
  /\ UNCHANGED <<comparison_items, inflight, result, enrichQueue, ops, badge, fetchFrame>>

\* the executeScript callback: the tab is removed; with lastError the promise
\* rejects, without a result it resolves, with details the list is read
\* (into a tab that is gone the injection fails)
ExecuteScriptCallback(outcome, details) ==
  /\ detail.pc = "delay"
  /\ ~detail.tab => outcome = "lastError"
  /\ CASE outcome = "lastError" ->
            Respond([detail EXCEPT !.tab = FALSE], FALSE, "injection")
       [] outcome = "noResult" ->
            Respond([detail EXCEPT !.tab = FALSE], TRUE, "noDetails")
       [] OTHER ->
            /\ detail' = [detail EXCEPT !.tab = FALSE, !.pc = "get", !.details = details]
            /\ result' = result
  /\ UNCHANGED <<comparison_items, inflight, enrichQueue, ops, badge, fetchFrame>>

\* the storage get callback of the enrichment: the list is mapped and the set
\* issued
DetailsGet ==
  /\ detail.pc = "get"
  /\ inflight["enrich"].pc = "idle"
  /\ inflight' = [inflight EXCEPT !["enrich"] =
        Issued("enriched", detail.pid, comparison_items,
               enrichItems(comparison_items, detail.pid, detail.details))]
  /\ detail' = [detail EXCEPT !.pc = "set"]
  /\ UNCHANGED <<comparison_items, result, enrichQueue, ops, badge, fetchFrame>>

\* the storage set callback of the enrichment: the promise resolves
DetailsSet ==
  /\ detail.pc = "set"
  /\ inflight["enrich"].pc = "set"
  /\ comparison_items' = inflight["enrich"].items
  /\ OnChanged(comparison_items')
  /\ inflight' = [inflight EXCEPT !["enrich"] = Idle]
  /\ Respond(detail, TRUE, "enriched")
  /\ UNCHANGED <<enrichQueue, ops, fetchFrame>>

NextDetails ==
  \/ \E pid \in 1..NumIds, created \in BOOLEAN : FetchPropertyDetails(pid, created)
  \/ LoadTimeout
  \/ PageComplete
  \/ TabClosed
  \/ \E outcome \in ScriptOutcomes, details \in 0..NumDetails :
        ExecuteScriptCallback(outcome, details)
  \/ DetailsGet
  \/ DetailsSet
  \/ \E pid \in 0..NumIds : ExternalRemoveGet(pid)
  \/ ExternalRemoveSet

\* the background serving fetchPropertyDetails requests and removals from
\* compareon.xyz; a timer that is armed fires, a callback that is due runs
SpecDetails ==
  /\ InitEnrich
  /\ [][NextDetails]_vars
  /\ WF_vars(LoadTimeout \/ PageComplete)
  /\ WF_vars(\E outcome \in ScriptOutcomes, details \in 0..NumDetails :
               ExecuteScriptCallback(outcome, details))
  /\ WF_vars(DetailsGet)
  /\ WF_vars(DetailsSet)

Next ==
  \/ \E pid \in 0..NumIds, d \in 1..NumData : AddItemGet(pid, d, MaxOps)
  \/ AddItemSet
  \/ \E pid \in 0..NumIds : RemoveItemGet(pid, MaxOps)
  \/ RemoveItemSet
  \/ \E pid \in 1..NumIds, d \in 1..NumData : ZillowClickGet(pid, d)
  \/ \E hasLink \in BOOLEAN : ZillowClickSet(hasLink)
  \/ \E pid \in 1..NumIds, details \in 0..NumDetails : EnrichGet(pid, details)
  \/ EnrichSet
  \/ \E pid \in 1..NumIds : EnrichNone(pid)
  \/ \E pid \in 0..NumIds : ExternalRemoveGet(pid)
  \/ ExternalRemoveSet
  \/ LoadProductsFromStorage
  \/ LoadComparisonItems
  \/ \E pid \in 0..NumIds : RemoveProductGet(pid)
  \/ RemoveProductSet
  \/ \E pid \in 0..NumIds : ApiRemoveProductGet(pid)
  \/ ApiRemoveProductSet
  \/ \E apiProducts \in ServerLists : FetchProductsGet(apiProducts)
  \/ FetchProductsSet

\* every entry point of the list, interleaved
Spec == Init /\ [][Next]_vars

NextBadge ==
  \/ Next
  \/ UpdateBadgeMessage
  \/ OnStartup

\* every entry point of the list and the background's badge handlers
SpecBadge == Init /\ [][NextBadge]_vars

\* ------------------------------------------------------------------ claims

\* number of entries of items with product_id pid
CountId(items, pid) == Cardinality({i \in DOMAIN items : items[i].product_id = pid})

\* the record addItem is to store for an incoming product
Incoming(pid, d) == [Product(pid, d) EXCEPT !.status = "active", !.addedAt = now]

\* C1: for a single caller issuing ComparisonManager adds and removes one
\* after another from the empty list, the number of active entries of the
\* persisted list never exceeds MAX_ITEMS
C1_ActiveNeverExceedsMax == activeCount(comparison_items) <= MAX_ITEMS

\* C2: in every reachable state, whatever the entry points and their
\* interleaving, at most 5 entries of the persisted list are active
C2_AtMostFiveActive ==
  Cardinality({i \in DOMAIN comparison_items : comparison_items[i].status = "active"}) <= 5

\* C3: an add (ComparisonManager or Zillow button) of a product_id that is not
\* in the list while 5 entries are active resolves as limit reached, issues no
\* set and leaves the persisted list as it was
C3_FullListRejectsNewId ==
  [][(activeCount(comparison_items) = 5 /\ ops' = ops + 1)
     => \A pid \in 0..NumIds, d \in 1..NumData :
          CountId(comparison_items, pid) = 0
          => /\ AddItemGet(pid, d, MaxOps)
                => /\ result'["manager"] = [success |-> FALSE, kind |-> "limit"]
                   /\ inflight'["manager"].pc = "idle"
                   /\ comparison_items' = comparison_items
             /\ ZillowClickGet(pid, d)
                => /\ result'["zillow"] = [success |-> FALSE, kind |-> "limit"]
                   /\ inflight'["zillow"].pc = "idle"
                   /\ comparison_items' = comparison_items]_vars

\* a sixth id has been refused while the five first additions are active
C3_Witness ==
  /\ result["manager"] = [success |-> FALSE, kind |-> "limit"]
  /\ activeCount(comparison_items) = 5
  /\ Len(comparison_items) = 5
  /\ nextId = 7

C5_ActiveAddOverwritesInPlace ==
  [][/\ \A pid \in 0..NumIds, d \in 1..NumData :
          (/\ AddItemGet(pid, d, MaxCalls)
           /\ \E i \in DOMAIN comparison_items :
                 /\ comparison_items[i].product_id = pid
                 /\ comparison_items[i].status = "active")
          => LET i == findIndex(comparison_items, pid)
                 new == inflight'["manager"].items
             IN /\ inflight'["manager"].pc = "set"
                /\ inflight'["manager"].kind = "replaced"
                /\ Len(new) = Len(comparison_items)
                /\ activeCount(new) = activeCount(comparison_items)
                /\ new[i] = [Incoming(pid, d) EXCEPT !.updatedAt = now]
                /\ new[i].updatedAt # Absent
                /\ \A j \in DOMAIN new : j # i => new[j] = comparison_items[j]
     /\ (AddItemSet /\ inflight["manager"].kind = "replaced")
          => /\ comparison_items' = inflight["manager"].items
             /\ result'["manager"] = [success |-> TRUE, kind |-> "replaced"]]_vars

\* an active entry among others has been overwritten with new fields
C5_Witness ==
  /\ result["manager"] = [success |-> TRUE, kind |-> "replaced"]
  /\ Len(comparison_items) >= 2
  /\ \E i \in DOMAIN comparison_items :
        /\ comparison_items[i].updatedAt # Absent
        /\ comparison_items[i].data = 2

\* the remove that slot s has in flight lands
RemoveLands(s) ==
  /\ inflight[s].pc = "set"
  /\ inflight[s].kind = "removed"
  /\ inflight'[s].pc = "idle"

\* C6: a remove (ComparisonManager or the background's external handler) of a
\* product_id that no entry has resolves with success and writes back the list
\* it read: contents and active count are unchanged
C6_RemoveAbsentIsNoOp ==
  [][\A s \in {"manager", "external"} :
       (RemoveLands(s) /\ CountId(inflight[s].read, inflight[s].pid) = 0)
       => /\ result'[s] = [success |-> TRUE, kind |-> "removed"]
          /\ comparison_items' = inflight[s].read
          /\ activeCount(comparison_items') = activeCount(inflight[s].read)
          /\ (comparison_items = inflight[s].read
                => comparison_items' = comparison_items)]_vars

\* the only operation so far was a remove, and every entry is still active
C6_Witness ==
  /\ ops = 1
  /\ result["manager"] = [success |-> TRUE, kind |-> "removed"]
  /\ Len(comparison_items) >= 2
  /\ activeCount(comparison_items) = Len(comparison_items)

\* C7: a ComparisonManager remove of a product_id whose entry is already
\* removed writes back the list it read, removedAt included
C7_RemoveRemovedIsNoOp ==
  [][(/\ RemoveLands("manager")
      /\ inflight["manager"].pid # NoId
      /\ \E i \in DOMAIN inflight["manager"].read :
            /\ inflight["manager"].read[i].product_id = inflight["manager"].pid
            /\ inflight["manager"].read[i].status = "removed")
     => comparison_items' = inflight["manager"].read]_vars

\* the last products array of the server's record for pid
LastOf(products, pid) ==
  products[CHOOSE i \in DOMAIN products :
             /\ products[i].product_id = pid
             /\ \A j \in DOMAIN products : products[j].product_id = pid => j <= i]

\* C8: the list reconcile produces holds, for every product_id of the server,
\* the server's record; for every product_id only in the local list, the
\* local record; and nothing else: one entry per product_id of the union
C8_ReconcileIsUnionServerWins ==
  [][/\ (inflight["reconcile"].pc = "idle" /\ inflight'["reconcile"].pc = "set")
        => \A apiProducts \in ServerLists :
             FetchProductsGet(apiProducts)
             => LET merged == inflight'["reconcile"].items
                    serverIds == ProductIds(apiProducts) \ {NoId}
                    localIds == (ProductIds(comparison_items) \ {NoId}) \ serverIds
                IN /\ \A pid \in serverIds :
                        /\ CountId(merged, pid) = 1
                        /\ merged[findIndex(merged, pid)] = LastOf(apiProducts, pid)
                   /\ \A pid \in localIds :
                        /\ CountId(merged, pid) = 1
                        /\ merged[findIndex(merged, pid)]
                             = comparison_items[findIndex(comparison_items, pid)]
                   /\ ProductIds(merged) = serverIds \cup localIds
                   /\ Len(merged) = Cardinality(serverIds \cup localIds)
                   /\ comparisonItems' = merged
     /\ FetchProductsSet => comparison_items' = inflight["reconcile"].items]_vars

\* local [1, 2, ...] and server [1'] have been reconciled to [1', 2, ...]
C8_Witness ==
  /\ inflight["reconcile"].pc = "idle"
  /\ Len(comparison_items) >= 2
  /\ comparison_items[1] = ServerProduct(1, "removed")
  /\ comparison_items[2] = [Product(2, 1) EXCEPT !.status = "active", !.addedAt = 1]
  /\ comparisonItems = comparison_items

\* C9: no two entries of the persisted list have the same product_id
C9_ProductIdsUnique ==
  \A i, j \in DOMAIN comparison_items :
     comparison_items[i].product_id = comparison_items[j].product_id => i = j

\* a list of several entries holding a product the server reported for an
\* id that the list already had
C9_Witness ==
  /\ Len(comparison_items) >= 3
  /\ \E i \in DOMAIN comparison_items : comparison_items[i] = ServerProduct(1, "removed")
  /\ inflight["reconcile"].kind = "none"
  /\ ops = MaxOps

\* C10: no add or remove, through any entry point, deletes an entry: when
\* its set lands on the list it worked on, every product_id of that list is
\* still there and the list is no shorter
C10_NoEntryDeleted ==
  [][\A s \in {"manager", "zillow", "popup", "apipopup", "external"} :
       (/\ inflight[s].pc = "set"
        /\ inflight'[s].pc = "idle"
        /\ comparison_items = inflight[s].read)
       => /\ ProductIds(comparison_items) \subseteq ProductIds(comparison_items')
          /\ Len(comparison_items') >= Len(comparison_items)]_vars

\* C12: whenever the persisted list changes (add, remove, reconcile), the
\* badge text is then the decimal number of active entries when that number
\* is greater than 0 and empty when it is 0, under either background script
C12_BadgeIsActiveCount ==
  [][comparison_items' # comparison_items
     => \A bg \in Backgrounds :
          LET n == Cardinality({i \in DOMAIN comparison_items' :
                                  comparison_items'[i].status = "active"})
          IN badge'[bg] = IF n > 0 THEN toString(n) ELSE <<>>]_vars


\* C11: a compare click (openComparisonPage, createComparisonSession) made
\* while fewer than 2 entries of the persisted list are active is rejected:
\* no getBrowserUUID call is started, nothing is sent, current_session is not
\* written and no tab is opened
C11_FewerThanTwoActiveRejected ==
  [][\A f \in {"storage", "api"} :
       (CompareClick(f) /\ activeCount(comparison_items) < 2)
       => /\ session'[f].pc = "idle"
          /\ session'[f].outcome = "rejected"
          /\ uuidCall' = uuidCall
          /\ sent' = sent
          /\ current_session' = current_session
          /\ tabs' = tabs]_vars

\* C13: a set issued by one mutation lands whole whatever another mutation
\* wrote between its read and its write: the store is then exactly the list
\* computed from its own read, and the mutation reports success (so of two
\* interleaved mutations the earlier writer's effect is lost)
C13_LaterWriterWins ==
  [][\A t \in {"manager", "zillow", "external"} :
       (inflight[t].pc = "set" /\ inflight'[t].pc = "idle")
       => /\ comparison_items' = inflight[t].items
          /\ result'[t].success]_vars

\* two additions of different new products interleaved read, read, write,
\* write: both succeeded and the store holds one product
C13_Witness ==
  /\ result["manager"] = [success |-> TRUE, kind |-> "added"]
  /\ result["zillow"] = [success |-> TRUE, kind |-> "added"]
  /\ inflight["manager"].pc = "idle"
  /\ inflight["zillow"].pc = "idle"
  /\ ops = 2
  /\ nextId = 3
  /\ Len(comparison_items) = 1

\* C14: when a reconcile writes its merged list, every stored entry with a
\* product_id that the merged list does not hold (an item added locally, in
\* another context, after the reconcile read the store, and not reported by
\* the server) is still stored, unchanged, after the write
C14_ReconcileKeepsLocalAdds ==
  [][(inflight["reconcile"].pc = "set" /\ inflight'["reconcile"].pc = "idle")
     => \A i \in DOMAIN comparison_items :
          (/\ comparison_items[i].product_id # NoId
           /\ comparison_items[i].product_id
                \notin ProductIds(inflight["reconcile"].items))
          => \E j \in DOMAIN comparison_items' :
               comparison_items'[j] = comparison_items[i]]_vars

\* C15: with the ComparisonManager of one page as the only context, an
\* operation reads the store as its earlier operations left it: a successful
\* add or remove stores the list computed from the store as it is then (the
\* product added is in it active, the product removed is in it removed, every
\* other entry is unchanged), no other step changes the store, and each
\* operation's read is the store
C15_ReadYourWrites ==
  [][LET op == inflight["manager"]
         lands == op.pc = "set" /\ inflight'["manager"].pc = "idle"
     IN /\ lands
           => /\ result'["manager"].success
              /\ op.read = comparison_items
              /\ comparison_items' = op.items
              /\ op.kind \in {"added", "reactivated", "replaced"}
                 => \E j \in DOMAIN comparison_items' :
                      /\ comparison_items'[j].product_id = op.pid
                      /\ comparison_items'[j].status = "active"
              /\ op.kind = "removed"
                 => \A j \in DOMAIN comparison_items' :
                      comparison_items'[j].product_id = op.pid
                      => comparison_items'[j].status = "removed"
              /\ \A i \in DOMAIN comparison_items :
                   comparison_items[i].product_id # op.pid
                   => \E j \in DOMAIN comparison_items' :
                        comparison_items'[j] = comparison_items[i]
        /\ ~lands => comparison_items' = comparison_items
        /\ (op.pc = "idle" /\ inflight'["manager"].pc = "set")
           => inflight'["manager"].read = comparison_items]_vars

\* a removal has landed after the additions before it, and the store holds
\* both the entry it removed and an active entry it left alone
C15_Witness ==
  /\ result["manager"] = [success |-> TRUE, kind |-> "removed"]
  /\ inflight["manager"].pc = "idle"
  /\ \E i, j \in DOMAIN comparison_items :
       /\ comparison_items[i].status = "removed"
       /\ comparison_items[i].removedAt > 1
       /\ comparison_items[j].status = "active"

\* C16: every mutation of the persisted list (append, overwrite, removal,
\* reactivation, reconcile) keeps the relative order of the entries it
\* keeps: two products stored before and after the step are in the same
\* order after it as before it
C16_OrderPreserved ==
  [][comparison_items' # comparison_items
     => \A i, j \in DOMAIN comparison_items :
          LET p == comparison_items[i].product_id
              q == comparison_items[j].product_id
          IN (/\ i < j
              /\ p # NoId /\ q # NoId
              /\ p \in ProductIds(comparison_items')
              /\ q \in ProductIds(comparison_items'))
             => findIndex(comparison_items', p) < findIndex(comparison_items', q)]_vars

C18_SessionHoldsActiveAtInvocation ==
  [][/\ \A payload \in sent' \ sent :
          payload.products = SelectActive(session["api"].invokedOn)
     /\ \A f \in {"storage", "api"} :
          (session[f].pc = "store" /\ session'[f].pc = "idle")
          => current_session'[1].products = SelectActive(session[f].invokedOn)]_vars

\* C19: no step of a compare attempt (the click, getBrowserUUID, the message
\* sent, its reply, the current_session write, the tab opened), successful or
\* not, changes comparison_items
C19_SessionNeverWritesList ==
  [][(\/ session' # session
      \/ uuidCall' # uuidCall
      \/ browser_uuid' # browser_uuid
      \/ current_session' # current_session
      \/ sent' # sent
      \/ tabs' # tabs)
     => comparison_items' = comparison_items]_vars

\* a session was created from the API-synced popup while tombstones were
\* among the persisted entries, which are all still stored
C19_Witness ==
  /\ session["api"].outcome = "created"
  /\ current_session # <<>>
  /\ tabs # {}
  /\ comparison_items = session["api"].invokedOn
  /\ \E i \in DOMAIN comparison_items : comparison_items[i].status = "removed"

\* the remote session-create call of createComparisonSession fails in this
\* step (a failure response or no answer)
CreateSessionFails ==
  /\ session["api"].pc = "sent"
  /\ session'["api"].outcome = "failed"

\* C20 as stated: when the remote call fails, current_session is not
\* written, no tab is opened, nothing is sent again, and the compare button
\* is enabled again with the label it had before the attempt
C20_FailureReenablesButton ==
  [][CreateSessionFails
     => /\ current_session' = current_session
        /\ tabs' = tabs
        /\ sent' = sent
        /\ session'["api"].pc = "idle"
        /\ compareBtn'.label = session["api"].originalText
        /\ ~compareBtn'.disabled]_vars

\* C20: when the remote call fails, current_session is not written, no tab
\* is opened, the attempt ends and nothing is sent again (a payload is sent
\* only on a click's getBrowserUUID resolving), and the compare button gets
\* back the label it had before the attempt and is enabled if and only if
\* the popup's list holds at least 2 items at that moment
C20_FailureResetsButton ==
  [][/\ CreateSessionFails
        => /\ current_session' = current_session
           /\ tabs' = tabs
           /\ sent' = sent
           /\ session'["api"].pc = "idle"
           /\ compareBtn'.label = session["api"].originalText
           /\ compareBtn'.disabled = (Len(comparisonItems) < 2)
     /\ sent' # sent => session["api"].pc = "uuid"]_vars

\* the remote call failed: a payload was sent, no session is stored, no tab
\* is open and the button is enabled with its label
C20_Witness ==
  /\ session["api"].outcome = "failed"
  /\ session["api"].pc = "idle"
  /\ sent # {}
  /\ current_session = <<>>
  /\ tabs = {}
  /\ compareBtn = [visible |-> TRUE, disabled |-> FALSE, label |-> "Start Comparing"]

\* C21: when fetching the server's products fails (network error, non-OK
\* status) or the response has no products array, the reconcile merges
\* nothing and issues no write: the persisted list, the popup's list and the
\* reconcile's pending write are what they were
C21_FailedFetchWritesNothing ==
  [][(ops' = ops + 1 /\ result'["reconcile"] # result["reconcile"])
     => /\ result'["reconcile"].kind \in FetchFailures
        /\ comparison_items' = comparison_items
        /\ comparisonItems' = comparisonItems
        /\ inflight' = inflight]_vars

\* a fetch failed on a stored list with entries, which are all still stored
\* and no write is pending
C21_Witness ==
  /\ result["reconcile"].kind \in FetchFailures
  /\ inflight["reconcile"].pc = "idle"
  /\ ops = 1
  /\ Len(comparison_items) = MAX_ITEMS

\* C22: when the storage read or the storage write of an add or a remove
\* fails (the list handed to set was not built from the stored list, or the
\* stored list is not the list handed to set), the operation resolves with
\* success = false
C22_StoreFailureReported ==
  [][LET op == inflight["manager"]
     IN (/\ op.pc = "set"
         /\ inflight'["manager"].pc = "idle"
         /\ \/ op.read # comparison_items
            \/ comparison_items' # op.items)
        => ~result'["manager"].success]_vars

\* C24: an add or a remove whose storage read failed loses no entry: every
\* product_id stored before a step of ComparisonManager is stored after it
C24_FailedReadLosesNothing ==
  [][ProductIds(comparison_items) \subseteq ProductIds(comparison_items')]_vars

\* C23: an item without a product_id (none extracted and no fallback id on
\* the button) is never stored: every stored entry has a product_id
C23_NoItemWithoutId ==
  \A i \in DOMAIN comparison_items : comparison_items[i].product_id # NoId

\* C25: an entry that is stored as removed is not made active again by the
\* write of a detail enrichment, whenever the enrichment read the list (in
\* particular when it read it before the removal): every product_id stored
\* as removed before the enrichment's write is stored as removed after it
C25_EnrichmentKeepsRemoved ==
  [][(inflight["enrich"].pc = "set" /\ inflight'["enrich"].pc = "idle")
     => \A i \in DOMAIN comparison_items :
          comparison_items[i].status = "removed"
          => \A j \in DOMAIN comparison_items' :
               comparison_items'[j].product_id = comparison_items[i].product_id
               => comparison_items'[j].status = "removed"]_vars

\* C26: a click on the Zillow compare button hands to set the list that
\* ComparisonManager.addItem would hand to set for the same stored list and
\* product (new id under the limit, existing active id, existing removed id,
\* which gets reactivatedAt), and writes nothing where addItem writes
\* nothing (new id at the limit)
C26_ZillowClickIsAddItem ==
  [][\A pid \in 1..NumIds, d \in 1..NumData :
       ZillowClickGet(pid, d)
       => LET a == addItem(comparison_items, Product(pid, d), now)
          IN IF a.write
             THEN /\ inflight'["zillow"].pc = "set"
                  /\ inflight'["zillow"].items = a.items
             ELSE /\ inflight' = inflight
                  /\ result'["zillow"].kind = a.kind]_vars

\* C27: whenever no operation is between its read and its write and no
\* 'updateBadge' message is waiting, the badge set by the background script
\* that counts active entries is the active count of the stored list
C27_QuiescentBadgeIsActiveCount ==
  (/\ \A t \in Slots : inflight[t].pc = "idle"
   /\ badgeMsgs = <<>>)
  => badge["part_000"] = updateBadge(activeCount(comparison_items))

\* C28: the list a detail enrichment for productId hands to set differs from
\* the list it read only in the details and detailsEnriched of the entries
\* with that product_id: same length, same product_id and status at every
\* position, every other entry equal, and the whole list equal when no entry
\* has the product_id; that list is what its write stores
C28_EnrichmentFrame ==
  [][LET old == comparison_items
         new == inflight'["enrich"].items
         pid == inflight'["enrich"].pid
     IN /\ (inflight["enrich"].pc = "idle" /\ inflight'["enrich"].pc = "set")
           => /\ Len(new) = Len(old)
              /\ \A i \in DOMAIN old :
                   /\ [new[i] EXCEPT !.details = old[i].details,
                                     !.detailsEnriched = old[i].detailsEnriched]
                        = old[i]
                   /\ old[i].product_id # pid => new[i] = old[i]
                   /\ old[i].product_id = pid => new[i].detailsEnriched
              /\ pid \notin ProductIds(old) => new = old
        /\ (inflight["enrich"].pc = "set" /\ inflight'["enrich"].pc = "idle")
           => comparison_items' = inflight["enrich"].items]_vars

\* an enrichment has written: the product has its details, and the removed
\* entry beside it is still removed
C28_Witness ==
  /\ inflight["enrich"].pc = "idle"
  /\ \E i, j \in DOMAIN comparison_items :
       /\ comparison_items[i].detailsEnriched
       /\ comparison_items[i].details # Absent
       /\ comparison_items[i].status = "active"
       /\ comparison_items[j].status = "removed"
       /\ ~comparison_items[j].detailsEnriched

\* C29: an external message whose sender is not a page of the compareon.xyz
\* site is answered {success: false, error: 'Unauthorized'} and neither
\* reads nor writes the store (no product list returned, no removal begun)
C29_OnlyCompareonSiteServed ==
  [][\A url \in SenderUrls, request \in ExternalRequests :
       (OnMessageExternal(url, request) /\ ~FromCompareonSite(url))
       => /\ result'["external"] = [success |-> FALSE, kind |-> "Unauthorized"]
          /\ inflight' = inflight
          /\ comparison_items' = comparison_items]_vars

\* C30: a fetchPropertyDetails request never gets more than one response,
\* and once the background is serving it, it eventually completes with
\* exactly one response and its background tab closed (the page completes,
\* the 30 second timeout fires, the injection fails, nothing is extracted)
C30_DetailFetchCompletes ==
  /\ [](detail.responses <= 1)
  /\ [](detail.pc = "done" => detail.responses = 1 /\ ~detail.tab)
  /\ (detail.pc \in {"loading", "delay", "get", "set"}) ~> (detail.pc = "done")

\* a request whose page did not complete in time has been answered with the
\* failure, once, and its tab is closed
C30_Witness ==
  /\ detail.pc = "done"
  /\ detail.responses = 1
  /\ ~detail.tab
  /\ result["enrich"] = [success |-> FALSE, kind |-> "timeout"]

====
